---- MODULE Spec2Model ----
(***************************************************************************)
(* hydra-eval-jobs: the master walks an attribute tree with a pool of      *)
(* handler threads, each driving one evaluator worker process over a pair  *)
(* of pipes (src/src/hydra-eval-jobs.cc).                                  *)
(*                                                                         *)
(* Strings (attribute names, attribute paths, protocol lines sent to the   *)
(* worker) are sequences of one-character strings, so that concatenation,  *)
(* the search for '.' and ' ', and the ordering of std::set<std::string>   *)
(* are computed as the code computes them.                                 *)
(***************************************************************************)
EXTENDS Integers, Sequences, FiniteSets, TLC

(***************************************************************************)
(* Bounds of the model.                                                    *)
(***************************************************************************)
\* largest pool size (--workers) tried
MaxWorkers == 2
\* how many events of the environment a run sees: a worker whose RSS is
\* above the ceiling, a worker process that dies, an interrupt
MaxEvents == 2

(***************************************************************************)
(* Characters and strings.                                                 *)
(***************************************************************************)
TAB == "\t"
NL == "\n"
DOT == "."
SPC == " "

\* byte value order of the characters used (char traits compare)
Ord(c) ==
    CASE c = TAB -> 9
      [] c = NL -> 10
      [] c = SPC -> 32
      [] c = DOT -> 46
      [] c = "a" -> 97
      [] c = "b" -> 98
      [] c = "c" -> 99
      [] c = "d" -> 100
      [] c = "e" -> 101
      [] c = "i" -> 105
      [] c = "o" -> 111
      [] c = "t" -> 116
      [] c = "x" -> 120

\* std::string operator< : lexicographic, a proper prefix is smaller
RECURSIVE StrLess(_, _)
StrLess(s, t) ==
    IF t = <<>> THEN FALSE
    ELSE IF s = <<>> THEN TRUE
    ELSE IF Head(s) = Head(t) THEN StrLess(Tail(s), Tail(t))
    ELSE Ord(Head(s)) < Ord(Head(t))

\* *set.begin(): the smallest element of a non-empty std::set<std::string>
SetBegin(S) == CHOOSE s \in S : \A t \in S : t = s \/ StrLess(s, t)

\* std::string::find(ch) != npos
Contains(s, ch) == \E k \in 1..Len(s) : s[k] = ch

\* hasPrefix(s, prefix)
HasPrefix(s, p) == Len(s) >= Len(p) /\ SubSeq(s, 1, Len(p)) = p

\* the elements of a set of strings in increasing order
RECURSIVE SortedSeq(_)
SortedSeq(S) ==
    IF S = {} THEN <<>>
    ELSE LET m == SetBegin(S) IN <<m>> \o SortedSeq(S \ {m})

Range(q) == {q[k] : k \in 1..Len(q)}

(***************************************************************************)
(* Attribute trees: the value the release expression evaluates to.         *)
(***************************************************************************)
Drv(path, system) == [type |-> "drv", drvPath |-> path, system |-> system]
Attrs(f) == [type |-> "attrs", attrs |-> f]
Null == [type |-> "null"]
Str == [type |-> "string"]
NoAttrs == [n \in {} |-> Null]

\* Scenario A: the root is a job
TreeJob == Drv("/nix/store/r.drv", "x86_64-linux")
\* Scenario C at the root: a value that is no job, no set and not null
TreeStr == Str
\* Scenario B: a job, an illegal name, null
TreeMixed ==
    Attrs(  (<<"a">> :> Drv("/nix/store/a.drv", "x86_64-linux"))
         @@ (<<"b", DOT, "b">> :> Drv("/nix/store/bb.drv", "x86_64-linux"))
         @@ (<<"d">> :> Null) )
\* a nested set, a derivation without 'system', names with a space and a tab
TreeNested ==
    Attrs(  (<<"a">> :> Attrs(  (<<"c">> :> Drv("/nix/store/ac.drv", "unknown"))
                             @@ (<<"x", SPC, "x">> :> Drv("/nix/store/xx.drv", "x86_64-linux"))))
         @@ (<<"a", TAB, "b">> :> Drv("/nix/store/atb.drv", "x86_64-linux")) )
\* a set whose root holds the empty attribute name
TreeEmptyName ==
    Attrs(  (<<>> :> Drv("/nix/store/e.drv", "x86_64-linux"))
         @@ (<<"a">> :> Null) )

\* a set with a name that holds a line feed
TreeNewline ==
    Attrs(  (<<"a">> :> Drv("/nix/store/a.drv", "x86_64-linux"))
         @@ (<<"a", NL, "b">> :> Null) )

Trees == {TreeJob, TreeStr, TreeMixed, TreeNested, TreeEmptyName, TreeNewline}

(***************************************************************************)
(* The evaluator calls the worker makes (nix library, called at line 174). *)
(***************************************************************************)
\* parseAttrPath: split at every '.', the last token kept only if non-empty
RECURSIVE ParseFrom(_, _, _)
ParseFrom(s, cur, res) ==
    IF s = <<>> THEN (IF cur # <<>> THEN Append(res, cur) ELSE res)
    ELSE IF Head(s) = DOT THEN ParseFrom(Tail(s), <<>>, Append(res, cur))
    ELSE ParseFrom(Tail(s), Append(cur, Head(s)), res)

parseAttrPath(s) == ParseFrom(s, <<>>, <<>>)

\* findAlongAttrPath: walk the tokens down from the root value.  A non-set
\* on the way is a TypeError (an EvalError); an empty or a missing
\* attribute name is a plain Error, which the worker loop does not catch.
RECURSIVE Walk(_, _)
Walk(v, tokens) ==
    IF tokens = <<>> THEN [ok |-> TRUE, value |-> v]
    ELSE IF v.type # "attrs"
        THEN [ok |-> FALSE, eval |-> TRUE, msg |-> "should be a set"]
    ELSE IF Head(tokens) = <<>>
        THEN [ok |-> FALSE, eval |-> FALSE, msg |-> "empty attribute name"]
    ELSE IF Head(tokens) \notin DOMAIN v.attrs
        THEN [ok |-> FALSE, eval |-> FALSE, msg |-> "attribute not found"]
    ELSE Walk(v.attrs[Head(tokens)], Tail(tokens))

findAlongAttrPath(vRoot, attrPath) == Walk(vRoot, parseAttrPath(attrPath))

(***************************************************************************)
(* worker(): the reply to "do <attrPath>" (lines 171-233).                 *)
(***************************************************************************)
JsonNull == <<>>
ErrorObj(msg, attrPath) == "error" :> [msg |-> msg, path |-> attrPath]

\* lines 208-215: names with a '.' or a ' ' are skipped
LegalName(name) == ~ (Contains(name, DOT) \/ Contains(name, SPC))

\* lines 205-217: the names of an attribute set, in lexicographic order
AttrNames(v) == SortedSeq({n \in DOMAIN v.attrs : LegalName(n)})

\* a slip: an EvalError leaves worker() like any other exception
CatchesEvalErrorNot == FALSE
\* line 224: catch (EvalError & e)
CatchesEvalError == TRUE

\* thrown = TRUE: an exception other than EvalError left worker(); the
\* process body (lines 310-317) writes it as an error record and exits.
Evaluate(vRoot, attrPath) ==
    LET f == findAlongAttrPath(vRoot, attrPath) IN
    IF ~ f.ok
        THEN [thrown |-> ~ (f.eval /\ CatchesEvalError),
              json |-> ErrorObj(f.msg, attrPath)]
    ELSE LET v == f.value IN
        CASE v.type = "drv" ->
               IF v.system = "unknown"
               THEN [thrown |-> ~ CatchesEvalError,
                     json |-> ErrorObj("derivation must have a 'system' attribute", attrPath)]
               ELSE [thrown |-> FALSE, json |-> "job" :> [drvPath |-> v.drvPath]]
          [] v.type = "attrs" -> [thrown |-> FALSE, json |-> "attrs" :> AttrNames(v)]
          [] v.type = "null" -> [thrown |-> FALSE, json |-> JsonNull]
          [] OTHER -> [thrown |-> ~ CatchesEvalError,
                       json |-> ErrorObj("is not supported", attrPath)]

(***************************************************************************)
(* The handler's treatment of a response (lines 360-387).                  *)
(***************************************************************************)
Has(json, key) == key \in DOMAIN json

\* line 370: (attrPath.empty() ? "" : attrPath + ".") + i
JoinPath(attrPath, i) ==
    (IF attrPath = <<>> THEN <<>> ELSE attrPath \o <<DOT>>) \o i

\* lines 368-373
NewAttrs(attrPath, response) ==
    IF Has(response, "attrs")
    THEN {JoinPath(attrPath, i) : i \in Range(response["attrs"])}
    ELSE {}

\* json operator[]: assign one key of an object (null becomes an object)
JsonSet(obj, key, val) ==
    [k \in DOMAIN obj \cup {key} |-> IF k = key THEN val ELSE obj[k]]
JsonGet(obj, key) == IF key \in DOMAIN obj THEN obj[key] ELSE JsonNull

\* a slip: the whole mapping is assigned instead of one key
RecordJobWhole(jobs, attrPath, response) ==
    IF Has(response, "job") THEN attrPath :> response["job"] ELSE jobs

\* lines 363-366: state->jobs[attrPath] = response["job"]
RecordJob(jobs, attrPath, response) ==
    IF Has(response, "job") THEN JsonSet(jobs, attrPath, response["job"]) ELSE jobs

\* lines 375-378: state->jobs[attrPath]["error"] = response["error"]
RecordError(jobs, attrPath, response) ==
    IF Has(response, "error")
    THEN JsonSet(jobs, attrPath, JsonSet(JsonGet(jobs, attrPath), "error", response["error"]))
    ELSE jobs

\* line 341: the loop has nothing left to do
NoExc == [what |-> "none", by |-> 0]

\* a slip: the in-flight paths are forgotten
ClaimDoneNoActive(todo, active, exc) == todo = {} \/ exc # NoExc
\* a slip: the recorded exception is not looked at
ClaimDoneNoExc(todo, active, exc) == todo = {} /\ active = {}

ClaimDone(todo, active, exc) == (todo = {} /\ active = {}) \/ exc # NoExc

\* lines 383-385
FoldActive(active, attrPath) == active \ {attrPath}
\* a slip: only the first new name is queued
FoldTodoFirst(todo, newAttrs) ==
    IF newAttrs = {} THEN todo ELSE todo \cup {SetBegin(newAttrs)}
\* a slip: the new names replace the queue
FoldTodoReplace(todo, newAttrs) == newAttrs
FoldTodo(todo, newAttrs) == todo \cup newAttrs

(***************************************************************************)
(* The protocol lines (lines 161-165, 242, 342, 355).                      *)
(***************************************************************************)
LineExit == <<"e", "x", "i", "t">>
PrefixDo == <<"d", "o", SPC>>
DoLine(attrPath) == PrefixDo \o attrPath
\* std::string attrPath(s, 3)
LineArg(s) == SubSeq(s, Len(PrefixDo) + 1, Len(s))

\* writeLine(fd, s) writes s and a line feed; readLine(fd) returns the bytes
\* up to the next line feed: the lines a reader gets from one writeLine(s)
RECURSIVE LinesFrom(_, _, _)
LinesFrom(s, cur, res) ==
    IF s = <<>> THEN Append(res, cur)
    ELSE IF Head(s) = NL THEN LinesFrom(Tail(s), <<>>, Append(res, cur))
    ELSE LinesFrom(Tail(s), Append(cur, Head(s)), res)
Lines(s) == LinesFrom(s, <<>>, <<>>)

\* what a worker writes: the text "next" or "restart", or a JSON record
MsgNext == [text |-> "next", json |-> JsonNull]
MsgRestart == [text |-> "restart", json |-> JsonNull]
MsgJson(j) == [text |-> "json", json |-> j]

(***************************************************************************)
(* State.                                                                  *)
(***************************************************************************)
VARIABLES
    tree,         \* the value of the release expression (the same in every worker)
    nrWorkers,    \* myArgs.nrWorkers
    todo,         \* State::todo
    active,       \* State::active
    jobs,         \* State::jobs
    exc,          \* State::exc
    hpc,          \* where each handler thread is
    pid,          \* handler local: pid (-1: no worker process)
    attrPath,     \* handler local: attrPath
    response,     \* handler local: response
    toW,          \* pipe handler -> worker: lines not yet read
    fromW,        \* pipe worker -> handler: lines not yet read
    wpc,          \* where each worker process is
    interrupted,  \* the interrupt flag checkInterrupt() reads
    spawned,      \* how many worker processes each handler has started
    events,       \* how many events of the environment have happened
    output,       \* what main() ends with
    claimed,      \* history: paths ever moved from todo to active
    folded,       \* history: paths whose fold (lines 381-387) has run
    how,          \* history: how each handler left its loop
    greeted,      \* history: the current worker of each handler has written "next"
    breached      \* history: the path the current worker of each handler had just
                  \* answered when it found its RSS over the ceiling (a set, empty
                  \* while the worker is under the ceiling)

vars == <<tree, nrWorkers, todo, active, jobs, exc, hpc, pid, attrPath, response,
          toW, fromW, wpc, spawned, interrupted, events, output,
          claimed, folded, how, greeted, breached>>

frontier == <<todo, active, jobs, exc>>
hlocals == <<pid, attrPath, response>>
pipes == <<toW, fromW>>
wstate == <<wpc, spawned>>
config == <<tree, nrWorkers>>
env == <<interrupted, events>>
history == <<claimed, folded, how, greeted, breached>>

Slots == 1..nrWorkers
NoOutput == [kind |-> "none"]

Init ==
    /\ tree \in Trees
    /\ nrWorkers \in 1..MaxWorkers
    /\ todo = {<<>>}
    /\ active = {}
    /\ jobs = JsonNull
    /\ exc = NoExc
    /\ hpc = [h \in Slots |-> "start"]
    /\ pid = [h \in Slots |-> -1]
    /\ attrPath = [h \in Slots |-> <<>>]
    /\ response = [h \in Slots |-> JsonNull]
    /\ toW = [h \in Slots |-> <<>>]
    /\ fromW = [h \in Slots |-> <<>>]
    /\ wpc = [h \in Slots |-> "none"]
    /\ spawned = [h \in Slots |-> 0]
    /\ interrupted = FALSE
    /\ events = 0
    /\ output = NoOutput
    /\ claimed = {}
    /\ folded = {}
    /\ how = [h \in Slots |-> "running"]
    /\ greeted = [h \in Slots |-> FALSE]
    /\ breached = [h \in Slots |-> {}]

(***************************************************************************)
(* The handler thread (lines 287-394).                                     *)
(***************************************************************************)
\* a slip: the claim loop takes the lock without looking at the interrupt flag
ClaimLoopTopUnchecked == "lock"
\* lines 338-339: every round of the claim loop starts with checkInterrupt()
ClaimLoopTop == "claim"

\* wakeup.notify_all(): every thread blocked in state.wait(wakeup) resumes
NotifyAll(pcs) ==
    [k \in DOMAIN pcs |-> IF pcs[k] = "wait" THEN ClaimLoopTop ELSE pcs[k]]

\* lines 389-393: the exception is stored and the waiters are woken
CatchExc(old, new) == new
\* a slip: the waiters are not woken
CatchPcsNoNotify(pcs, h) == [pcs EXCEPT ![h] = "done"]
CatchPcs(pcs, h) == NotifyAll([pcs EXCEPT ![h] = "done"])

\* an exception leaves the try block of handler h
Throw(h, what) ==
    /\ exc' = CatchExc(exc, [what |-> what, by |-> h])
    /\ hpc' = CatchPcs(hpc, h)
    /\ how' = [how EXCEPT ![h] = "threw"]

\* readLine(from.get()) has a line to return / hits end of file
CanRead(h) == fromW[h] # <<>>
\* the worker process has ended: it returned, or abort() ended it
Gone(h) == wpc[h] \in {"dead", "aborted"}
AtEof(h) == fromW[h] = <<>> /\ Gone(h)

\* a slip: the handler does not wait for the first "next" of a new worker
SpawnPcClaim == "claim"
\* line 326: after the spawn the handler reads the worker's first line
SpawnPc == "ready"

\* lines 296-323: start a new worker process
Spawn(h) ==
    /\ hpc[h] = "start"
    /\ pid[h] = -1
    /\ spawned' = [spawned EXCEPT ![h] = @ + 1]
    /\ pid' = [pid EXCEPT ![h] = spawned'[h]]
    /\ toW' = [toW EXCEPT ![h] = <<>>]
    /\ fromW' = [fromW EXCEPT ![h] = <<>>]
    /\ wpc' = [wpc EXCEPT ![h] = "init"]
    /\ hpc' = [hpc EXCEPT ![h] = SpawnPc]
    /\ greeted' = [greeted EXCEPT ![h] = FALSE]
    /\ breached' = [breached EXCEPT ![h] = {}]
    /\ UNCHANGED <<config, frontier, attrPath, response, env, output,
                   claimed, folded, how>>

\* a slip: every line that is not "restart" lets the handler on
IsNextLoose(s) == s # MsgRestart
\* line 330: s != "next" is a worker error
IsNext(s) == s = MsgNext

\* lines 326-333: restart, next, or a worker error
Ready(h) ==
    /\ hpc[h] = "ready"
    /\ \/ /\ CanRead(h)
          /\ fromW' = [fromW EXCEPT ![h] = Tail(@)]
          /\ LET s == Head(fromW[h]) IN
             IF s = MsgRestart
               THEN /\ pid' = [pid EXCEPT ![h] = -1]
                    /\ hpc' = [hpc EXCEPT ![h] = "start"]
                    /\ UNCHANGED <<exc, how>>
             ELSE IF IsNext(s)
               THEN /\ hpc' = [hpc EXCEPT ![h] = ClaimLoopTop]
                    /\ UNCHANGED <<pid, exc, how>>
             ELSE /\ Throw(h, "worker error")
                  /\ UNCHANGED pid
       \/ /\ AtEof(h)
          /\ Throw(h, "EndOfFile")
          /\ UNCHANGED <<pid, fromW>>
    /\ UNCHANGED <<config, todo, active, jobs, attrPath, response, toW, wstate, env,
                   output, claimed, folded, greeted, breached>>

\* line 339: checkInterrupt() at the top of the claim loop
CheckInterrupt(h) ==
    /\ hpc[h] = "claim"
    /\ IF interrupted
         THEN Throw(h, "Interrupted")
         ELSE /\ hpc' = [hpc EXCEPT ![h] = "lock"]
              /\ UNCHANGED <<exc, how>>
    /\ UNCHANGED <<config, todo, active, jobs, hlocals, pipes, wstate, env, output,
                   claimed, folded, greeted, breached>>

\* writeLine(to.get(), ...) fails once the worker process is gone
CanWrite(h) == ~ Gone(h)

\* lines 340-355: under the lock leave, claim the first path, or wait; a
\* claimed path is then sent to the worker
Claim(h) ==
    /\ hpc[h] = "lock"
    /\ IF ClaimDone(todo, active, exc)
         THEN /\ IF CanWrite(h)
                   THEN /\ toW' = [toW EXCEPT ![h] = @ \o Lines(LineExit)]
                        /\ hpc' = [hpc EXCEPT ![h] = "done"]
                        /\ how' = [how EXCEPT ![h] =
                                      IF exc = NoExc THEN "drained" ELSE "stopped"]
                        /\ UNCHANGED exc
                   ELSE /\ Throw(h, "SysError")
                        /\ UNCHANGED toW
              /\ UNCHANGED <<todo, active, attrPath, claimed>>
         ELSE IF todo # {}
         THEN /\ attrPath' = [attrPath EXCEPT ![h] = SetBegin(todo)]
              /\ todo' = todo \ {attrPath'[h]}
              /\ active' = active \cup {attrPath'[h]}
              /\ claimed' = claimed \cup {attrPath'[h]}
              /\ IF CanWrite(h)
                   THEN /\ toW' = [toW EXCEPT ![h] = @ \o Lines(DoLine(attrPath'[h]))]
                        /\ hpc' = [hpc EXCEPT ![h] = "await"]
                        /\ UNCHANGED <<exc, how>>
                   ELSE /\ Throw(h, "SysError")
                        /\ UNCHANGED toW
         ELSE /\ hpc' = [hpc EXCEPT ![h] = "wait"]
              /\ UNCHANGED <<todo, active, attrPath, claimed, exc, how, toW>>
    /\ UNCHANGED <<config, jobs, pid, response, fromW, wstate, env, output, folded,
                   greeted, breached>>

\* state.wait(wakeup) may return without a notification
SpuriousWakeup(h) ==
    /\ hpc[h] = "wait"
    /\ hpc' = [hpc EXCEPT ![h] = ClaimLoopTop]
    /\ UNCHANGED <<config, frontier, hlocals, pipes, wstate, env, output, history>>

\* lines 363, 375, 381: the next block that takes the lock
AfterJob(r) == IF Has(r, "error") THEN "recErr" ELSE "fold"
AfterParse(r) == IF Has(r, "job") THEN "recJob" ELSE AfterJob(r)

\* line 358: nlohmann::json::parse(readLine(from.get()))
Await(h) ==
    /\ hpc[h] = "await"
    /\ \/ /\ CanRead(h)
          /\ fromW' = [fromW EXCEPT ![h] = Tail(@)]
          /\ LET s == Head(fromW[h]) IN
             IF s.text = "json"
               THEN /\ response' = [response EXCEPT ![h] = s.json]
                    /\ hpc' = [hpc EXCEPT ![h] = AfterParse(s.json)]
                    /\ UNCHANGED <<exc, how>>
               ELSE /\ Throw(h, "parse_error")
                    /\ UNCHANGED response
       \/ /\ AtEof(h)
          /\ Throw(h, "EndOfFile")
          /\ UNCHANGED <<response, fromW>>
    /\ UNCHANGED <<config, todo, active, jobs, pid, attrPath, toW, wstate, env, output,
                   claimed, folded, greeted, breached>>

\* lines 363-366
HandleJob(h) ==
    /\ hpc[h] = "recJob"
    /\ jobs' = RecordJob(jobs, attrPath[h], response[h])
    /\ hpc' = [hpc EXCEPT ![h] = AfterJob(response[h])]
    /\ UNCHANGED <<config, todo, active, exc, hlocals, pipes, wstate, env, output, history>>

\* lines 375-378
HandleError(h) ==
    /\ hpc[h] = "recErr"
    /\ jobs' = RecordError(jobs, attrPath[h], response[h])
    /\ hpc' = [hpc EXCEPT ![h] = "fold"]
    /\ UNCHANGED <<config, todo, active, exc, hlocals, pipes, wstate, env, output, history>>

\* a slip: the fold does not wake the waiters
FoldPcsNoNotify(pcs, h) == [pcs EXCEPT ![h] = "ready"]
\* line 386: wakeup.notify_all() under the lock; the handler goes on at 293
FoldPcs(pcs, h) == NotifyAll([pcs EXCEPT ![h] = "ready"])

\* lines 381-387: add the newly discovered names to the queue; attrPath and
\* response end with the iteration of the loop
Fold(h) ==
    /\ hpc[h] = "fold"
    /\ active' = FoldActive(active, attrPath[h])
    /\ todo' = FoldTodo(todo, NewAttrs(attrPath[h], response[h]))
    /\ hpc' = FoldPcs(hpc, h)
    /\ folded' = folded \cup {attrPath[h]}
    /\ attrPath' = [attrPath EXCEPT ![h] = <<>>]
    /\ response' = [response EXCEPT ![h] = JsonNull]
    /\ UNCHANGED <<config, jobs, exc, pid, pipes, wstate, env, output, claimed, how,
                   greeted, breached>>

(***************************************************************************)
(* The worker process (lines 117-243 and 306-317).                         *)
(***************************************************************************)
\* lines 123-157 succeed; line 161: the first writeLine(to.get(), "next")
WorkerNext(h) ==
    /\ wpc[h] = "init"
    /\ fromW' = [fromW EXCEPT ![h] = Append(@, MsgNext)]
    /\ wpc' = [wpc EXCEPT ![h] = "read"]
    /\ greeted' = [greeted EXCEPT ![h] = TRUE]
    /\ UNCHANGED <<config, frontier, hpc, hlocals, toW, spawned, env, output,
                   claimed, folded, how, breached>>

\* lines 307-317: setting up the evaluator throws; the error is written
WorkerStartFault(h) ==
    /\ wpc[h] = "init"
    /\ events < MaxEvents
    /\ events' = events + 1
    /\ fromW' = [fromW EXCEPT ![h] = Append(@, MsgJson(ErrorObj("cannot evaluate", <<>>)))]
    /\ wpc' = [wpc EXCEPT ![h] = "dead"]
    /\ UNCHANGED <<config, frontier, hpc, hlocals, toW, spawned, interrupted,
                   output, history>>

\* a slip: the RSS is compared with the ceiling before the reply is written
ReplyOverCeilingLost(out, json) == out
\* lines 233-239: the reply is written, then the RSS is found over the ceiling
ReplyOverCeiling(out, json) == Append(out, MsgJson(json))

\* the handler has closed its end of the pipe to the worker
ToClosed(h) == hpc[h] = "done"

\* lines 163-239 and 161: read a command.  exit leaves the loop; a line that
\* is no "do " aborts; end of file throws.  do <attrPath>: evaluate, reply,
\* compare the RSS with the ceiling, and either leave the loop or write the
\* next "next".
WorkerRead(h) ==
    /\ wpc[h] = "read"
    /\ \/ /\ toW[h] # <<>>
          /\ toW' = [toW EXCEPT ![h] = Tail(@)]
          /\ LET s == Head(toW[h]) IN
             IF s = LineExit
               THEN /\ wpc' = [wpc EXCEPT ![h] = "restart"]
                    /\ UNCHANGED <<fromW, events, breached>>
             ELSE IF ~ HasPrefix(s, PrefixDo)
               THEN /\ wpc' = [wpc EXCEPT ![h] = "aborted"]
                    /\ UNCHANGED <<fromW, events, breached>>
             ELSE LET r == Evaluate(tree, LineArg(s)) IN
                  IF r.thrown
                    THEN /\ fromW' = [fromW EXCEPT ![h] = Append(@, MsgJson(r.json))]
                         /\ wpc' = [wpc EXCEPT ![h] = "dead"]
                         /\ UNCHANGED <<events, breached>>
                    ELSE \/ /\ fromW' = [fromW EXCEPT ![h] =
                                            Append(Append(@, MsgJson(r.json)), MsgNext)]
                            /\ UNCHANGED <<wpc, events, breached>>
                         \/ /\ events < MaxEvents
                            /\ events' = events + 1
                            /\ fromW' = [fromW EXCEPT ![h] = ReplyOverCeiling(@, r.json)]
                            /\ wpc' = [wpc EXCEPT ![h] = "restart"]
                            /\ breached' = [breached EXCEPT ![h] = {attrPath[h]}]
       \/ /\ toW[h] = <<>>
          /\ ToClosed(h)
          /\ fromW' = [fromW EXCEPT ![h] = Append(@, MsgJson(ErrorObj("EndOfFile", <<>>)))]
          /\ wpc' = [wpc EXCEPT ![h] = "dead"]
          /\ UNCHANGED <<toW, events, breached>>
    /\ UNCHANGED <<config, frontier, hpc, hlocals, spawned, interrupted,
                   output, claimed, folded, how, greeted>>

\* line 242: writeLine(to.get(), "restart"), then the process ends
WorkerRestart(h) ==
    /\ wpc[h] = "restart"
    /\ fromW' = [fromW EXCEPT ![h] = Append(@, MsgRestart)]
    /\ wpc' = [wpc EXCEPT ![h] = "dead"]
    /\ UNCHANGED <<config, frontier, hpc, hlocals, toW, spawned, env, output, history>>

\* the worker process is killed (out of memory, a signal)
WorkerDies(h) ==
    /\ wpc[h] \in {"init", "read", "restart"}
    /\ events < MaxEvents
    /\ events' = events + 1
    /\ wpc' = [wpc EXCEPT ![h] = "dead"]
    /\ UNCHANGED <<config, frontier, hpc, hlocals, pipes, spawned, interrupted,
                   output, history>>

(***************************************************************************)
(* The environment and main() (lines 396-408).                             *)
(***************************************************************************)
\* SIGINT: the interrupt flag is set
Interrupt ==
    /\ ~ interrupted
    /\ output = NoOutput
    /\ events < MaxEvents
    /\ events' = events + 1
    /\ interrupted' = TRUE
    /\ UNCHANGED <<config, frontier, hpc, hlocals, pipes, wstate, output, history>>

AllJoined == \A h \in Slots : hpc[h] = "done"

\* a slip: the stored exception is not looked at
RethrowsNever(e) == FALSE
\* line 405: if (state->exc)
Rethrows(e) == e # NoExc

\* lines 400-408: join the threads, rethrow the exception or print the jobs
Finish ==
    /\ AllJoined
    /\ output = NoOutput
    /\ output' = IF Rethrows(exc) THEN [kind |-> "rethrow", exc |-> exc, jobs |-> JsonNull]
                 ELSE [kind |-> "printed", exc |-> NoExc, jobs |-> jobs]
    /\ UNCHANGED <<config, frontier, hpc, hlocals, pipes, wstate, env, history>>

HandlerStep(h) ==
    \/ Spawn(h)
    \/ Ready(h)
    \/ CheckInterrupt(h)
    \/ Claim(h)
    \/ Await(h)
    \/ HandleJob(h)
    \/ HandleError(h)
    \/ Fold(h)

WorkerStep(h) ==
    \/ WorkerNext(h)
    \/ WorkerRead(h)
    \/ WorkerRestart(h)

Next ==
    \/ \E h \in Slots : HandlerStep(h)
    \/ \E h \in Slots : WorkerStep(h)
    \/ \E h \in Slots : SpuriousWakeup(h)
    \/ \E h \in Slots : WorkerStartFault(h)
    \/ \E h \in Slots : WorkerDies(h)
    \/ Interrupt
    \/ Finish

Spec == Init /\ [][Next]_vars

(***************************************************************************)
(* Fair scheduling: every thread and every live worker process keeps       *)
(* running; main() is not delayed for ever.  Spurious wake-ups, worker     *)
(* deaths and interrupts are never forced.                                 *)
(***************************************************************************)
Fairness ==
    /\ \A h \in 1..MaxWorkers : WF_vars(h \in Slots /\ HandlerStep(h))
    /\ \A h \in 1..MaxWorkers : WF_vars(h \in Slots /\ WorkerStep(h))
    /\ WF_vars(Finish)

SpecFair == Init /\ [][Next]_vars /\ Fairness

\* no worker dies and no interrupt arrives
NextLive ==
    \/ \E h \in Slots : HandlerStep(h)
    \/ \E h \in Slots : WorkerStep(h)
    \/ \E h \in Slots : SpuriousWakeup(h)
    \/ Finish

SpecLive == Init /\ [][NextLive]_vars /\ Fairness

(***************************************************************************)
(* Properties.                                                             *)
(***************************************************************************)
Keys(json) == DOMAIN json
Printed == output.kind = "printed"
Resolved(p) == Evaluate(tree, p).json
\* what a worker answers to the command the handler writes for path p: the
\* worker reads one line of it
Answer(p) == Evaluate(tree, LineArg(Head(Lines(DoLine(p))))).json
IsResult(r) == Has(r, "job") \/ Has(r, "error")

\* the paths reached from the root by expanding every ChildNames result
RECURSIVE Expand(_)
Expand(S) ==
    LET T == S \cup UNION {NewAttrs(p, Resolved(p)) : p \in S}
    IN IF T = S THEN S ELSE Expand(T)
ReachablePaths == Expand({<<>>})

RECURSIVE ExpandAnswers(_)
ExpandAnswers(S) ==
    LET T == S \cup UNION {NewAttrs(p, Answer(p)) : p \in S}
    IN IF T = S THEN S ELSE ExpandAnswers(T)
AnsweredPaths == ExpandAnswers({<<>>})

C2_KeyIffJobOrError ==
    Printed =>
        \A p \in claimed \cup Keys(output.jobs) :
            LET r == Resolved(p) IN
            /\ p \in Keys(output.jobs) <=> (p \in claimed /\ IsResult(r))
            /\ Has(r, "job") => output.jobs[p] = r["job"]
            /\ Has(r, "error") => output.jobs[p] = ("error" :> r["error"])

\* the mapping a walk by one thread, one path at a time, ends with
RECURSIVE SerialWalk(_, _)
SerialWalk(pending, acc) ==
    IF pending = {} THEN acc
    ELSE LET p == SetBegin(pending)
             r == Answer(p)
         IN SerialWalk((pending \ {p}) \cup NewAttrs(p, r),
                       RecordError(RecordJob(acc, p, r), p, r))

\* C3: every run that ends without a fatal error prints the same mapping,
\* the one a walk by a single thread produces, whatever the pool size and
\* the interleaving.
C3_SameResultForEveryPool == Printed => output.jobs = SerialWalk({<<>>}, JsonNull)

C3_Witness ==
    /\ Printed
    /\ nrWorkers > 1
    /\ tree = TreeNested
    /\ \A h \in Slots : spawned[h] > 0 /\ how[h] = "drained"

\* C4: once a handler has left through the "done" branch of the claim loop
\* with no exception recorded, todo and active are empty, every path
\* discovered has been folded, and this stays so (nothing is queued later).
C4_DrainedMeansAllFolded ==
    (\E h \in Slots : how[h] = "drained") =>
        /\ todo = {}
        /\ active = {}
        /\ claimed \subseteq folded
        /\ \A h \in Slots : hpc[h] \notin {"await", "recJob", "recErr", "fold"}

C4_Witness ==
    /\ \E h \in Slots : how[h] = "drained"
    /\ \E h \in Slots : hpc[h] # "done"
    /\ Cardinality(folded) > 2

\* C5: with workers that answer every request and are not killed, under fair
\* scheduling every run in which no worker aborts ends with all handlers
\* joined and the mapping printed.
C5_EveryRunPrints ==
    \/ <>(AllJoined /\ Printed)
    \/ <>(\E h \in Slots : wpc[h] = "aborted")

\* C6: no path is in todo and in active at once.
C6_TodoActiveDisjoint == todo \cap active = {}

\* C7: a path that was claimed and is no longer in active has the job or
\* the error of its answer recorded in jobs, and each child its answer names
\* is in todo or claimed.
C7_LeftActiveMeansFolded ==
    \A p \in claimed \ active :
        LET r == Answer(p) IN
        /\ Has(r, "job") => p \in Keys(jobs) /\ jobs[p] = r["job"]
        /\ Has(r, "error") =>
              p \in Keys(jobs) /\ Has(jobs[p], "error") /\ jobs[p]["error"] = r["error"]
        /\ NewAttrs(p, r) \subseteq todo \cup claimed

C7_Witness ==
    /\ tree = TreeNested
    /\ <<"a">> \in claimed \ active
    /\ <<"a", DOT, "c">> \in todo
    /\ <<"a", TAB, "b">> \in active

\* C8: once an exception is recorded, no step claims a path: nothing leaves
\* todo and nothing enters active.
C8_NoClaimAfterFatal ==
    [][exc # NoExc => (todo \subseteq todo' /\ active' \subseteq active)]_vars

C8_Witness ==
    /\ exc # NoExc
    /\ todo # {}
    /\ \E h \in Slots : how[h] = "stopped"

\* C9: after an exception is recorded, every handler eventually terminates.
C9_FatalLeadsToAllDone == (exc # NoExc) ~> AllJoined

C9_Witness ==
    /\ exc # NoExc
    /\ AllJoined
    /\ folded # {}
    /\ \E h \in Slots : how[h] = "stopped" /\ exc.by # h

\* C10: a recorded exception is never replaced by a later one.
C10_FirstExceptionKept == [][exc # NoExc => exc' = exc]_vars

\* handler h writes a "do" command in this step
Dispatches(h) == hpc[h] = "lock" /\ hpc'[h] = "await"

\* C11: once a worker has found its RSS over the ceiling (it answers, then
\* sends restart), its handler writes nothing more to it; every "do" goes to
\* the worker the handler spawned last, which has written "next" and has not
\* reported a breach.
C11_NoDoAfterRestart ==
    [][\A h \in Slots :
          /\ (breached[h] # {} /\ breached'[h] # {}) => toW'[h] = toW[h]
          /\ Dispatches(h) =>
                (breached[h] = {} /\ greeted[h] /\ pid[h] = spawned[h])]_vars

C11_Witness ==
    \E h \in Slots :
        /\ hpc[h] = "await"
        /\ pid[h] = 2
        /\ greeted[h]
        /\ attrPath[h] # <<>>

\* handler h reads "restart" in this step
ReadsRestart(h) == hpc[h] = "ready" /\ hpc'[h] = "start"

\* C12 as stated: when a handler reads the restart of a worker that crossed
\* the ceiling, the path that worker had in flight is still in active.
C12_InFlightPathStillActive ==
    [][\A h \in Slots : ReadsRestart(h) => breached[h] \subseteq active]_vars

\* C12, amended: a worker that crosses the ceiling has written the reply for
\* the path in flight before it leaves its loop: while the handler awaits,
\* that reply is the next line it reads, no "next" follows it, and once the
\* handler is past the fold (so when it reads restart) the path is folded.
C12_AnsweredBeforeRestart ==
    \A h \in Slots : \A p \in breached[h] :
        /\ MsgNext \notin Range(fromW[h])
        /\ hpc[h] = "await" =>
              /\ attrPath[h] = p
              /\ fromW[h] # <<>>
              /\ Head(fromW[h]) = MsgJson(Answer(p))
        /\ hpc[h] \notin {"await", "recJob", "recErr", "fold"} => p \in folded

C12_Witness ==
    \E h \in Slots :
        /\ breached[h] # {}
        /\ hpc[h] = "ready"
        /\ fromW[h] = <<MsgRestart>>
        /\ breached[h] \cap active = {}
        /\ todo # {}

\* the worker of handler h has read the "exit" its handler wrote
ExitReceived(h) ==
    /\ how[h] \in {"drained", "stopped"}
    /\ LineExit \notin Range(toW[h])

\* C13: after a worker has received "exit", it writes nothing more to its
\* handler: no "restart" follows.
C13_NoMessageAfterExit ==
    [][\A h \in Slots : ExitReceived(h) => fromW'[h] = fromW[h]]_vars

\* handler h awaits a response and its worker has ended without writing one
AwaitsClosed(h) == hpc[h] = "await" /\ AtEof(h)

\* C14: when the channel of a worker is at end of file while its handler
\* awaits a response, the handler's next step records an exception and ends
\* the handler; under fair scheduling main() then rethrows, and what main()
\* ended with never changes: the mapping is not printed.
C14_ClosedChannelIsFatal ==
    /\ [][\A h \in Slots :
             (AwaitsClosed(h) /\ hpc'[h] # hpc[h]) => (exc' # NoExc /\ hpc'[h] = "done")]_vars
    /\ [][output # NoOutput => output' = output]_vars
    /\ \A h \in 1..MaxWorkers :
          (h \in Slots /\ AwaitsClosed(h)) ~> (output.kind = "rethrow")

C14_Witness ==
    /\ output.kind = "rethrow"
    /\ tree = TreeMixed
    /\ output.exc.what = "EndOfFile"
    /\ attrPath[output.exc.by] = <<"d">>
    /\ <<"a">> \in Keys(jobs)

\* handler h stores the error of its response in this step
RecordsError(h) == hpc[h] = "recErr" /\ hpc'[h] = "fold"

\* C15: with workers that are not killed and no interrupt, an evaluation
\* error is stored under the path of its handler and under no other key,
\* records no exception, and leaves the handler in its loop; the worker that
\* answered with it goes on (it ends only through its own restart); and under
\* fair scheduling the run ends with every reached path claimed and the
\* mapping printed.
C15_EvalErrorStaysLocal ==
    /\ [][\A h \in Slots : RecordsError(h) =>
             /\ exc' = exc
             /\ Keys(jobs') = Keys(jobs) \cup {attrPath[h]}
             /\ \A q \in Keys(jobs) \ {attrPath[h]} : jobs'[q] = jobs[q]
             /\ jobs'[attrPath[h]]["error"] = response[h]["error"]]_vars
    /\ [](\A h \in Slots :
             (hpc[h] = "recErr" /\ Gone(h)) => MsgRestart \in Range(fromW[h]))
    /\ (\E h \in Slots : hpc[h] = "recErr")
          ~> (AllJoined /\ Printed /\ claimed = AnsweredPaths)

C15_Witness ==
    /\ Printed
    /\ tree = TreeNested
    /\ nrWorkers = 1
    /\ spawned[1] = 1
    /\ Has(output.jobs[<<"a", DOT, "c">>], "error")
    /\ <<"a", TAB, "b">> \in Keys(output.jobs)

\* the worker handler h spawned last has ended without writing "next", and
\* the handler is at its ready check
FailedBeforeNext(h) == hpc[h] = "ready" /\ ~ greeted[h] /\ Gone(h)

\* C16: when a new worker ends before its first "next" (it wrote an error
\* record, or nothing), the next step of its handler records an exception and
\* ends the handler, and claims nothing: todo and active are unchanged.
C16_FailedStartIsFatal ==
    [][\A h \in Slots :
          (FailedBeforeNext(h) /\ hpc'[h] # hpc[h]) =>
              /\ exc' # NoExc /\ exc'.by = h
              /\ hpc'[h] = "done"
              /\ todo' = todo /\ active' = active /\ claimed' = claimed]_vars

C16_Witness ==
    \E h \in Slots :
        /\ how[h] = "threw"
        /\ exc.by = h /\ exc.what = "worker error"
        /\ pid[h] = 2
        /\ ~ greeted[h]
        /\ todo # {}

HasWhitespace(q) == Range(q) \cap {SPC, TAB, NL} # {}

\* C17: no child name a handler receives holds '.', a space, a tab or a line
\* feed; so no path in todo or claimed holds white space, and the "do"
\* command of every such path is one line.
C17_NamesWithoutWhitespace ==
    /\ \A h \in Slots :
          Has(response[h], "attrs") =>
              \A n \in Range(response[h]["attrs"]) :
                  ~ Contains(n, DOT) /\ ~ HasWhitespace(n)
    /\ \A p \in todo \cup claimed :
          ~ HasWhitespace(p) /\ Len(Lines(DoLine(p))) = 1

\* handler h moves a path from todo to active in this step
Claims(h) == hpc[h] = "lock" /\ hpc'[h] # "lock" /\ todo' # todo

\* C18 as stated: once the interrupt flag is set, no step claims a path.
C18_NoClaimAfterInterrupt ==
    [][interrupted => \A h \in Slots : ~ Claims(h)]_vars

\* handler h comes to the lock of the claim loop in this step
TakesLock(h) == hpc[h] # "lock" /\ hpc'[h] = "lock"

\* C18, amended: the interrupt flag stays set.  A handler that runs its
\* interrupt check with the flag set claims nothing: it records an exception
\* and ends.  A handler comes to the lock only from a check that found the
\* flag unset, and a claim is its next step from there: a handler that passed
\* the check before the flag was set may still claim, but it claims at most
\* one path with the flag set.
C18_AtMostOneLateClaim ==
    [][/\ interrupted => interrupted'
       /\ \A h \in Slots :
             /\ (hpc[h] = "claim" /\ interrupted /\ hpc'[h] # hpc[h]) =>
                   /\ hpc'[h] = "done" /\ exc' # NoExc
                   /\ todo' = todo /\ active' = active
             /\ TakesLock(h) => (hpc[h] = "claim" /\ ~ interrupted)
             /\ Claims(h) => hpc'[h] \in {"await", "done"}]_vars

\* the flag was set while handler h was between its check and the lock, and
\* there is a path for it to claim
C18_Witness ==
    \E h, k \in Slots :
        /\ interrupted
        /\ hpc[h] = "lock" /\ todo # {} /\ exc = NoExc
        /\ hpc[k] = "await"

\* C19: a path that was claimed is never in todo again (so it is claimed at
\* most once), and a path that was folded is never queued again.
C19_ClaimedAtMostOnce == todo \cap (claimed \cup folded) = {}

\* C20: a handler is blocked in the wait only while there is nothing to claim,
\* some path is still active and no exception is recorded; so in no state is
\* a handler still running while every running handler is blocked in the wait.
C20_NoLostWakeup ==
    /\ \A h \in Slots :
          hpc[h] = "wait" => (todo = {} /\ active # {} /\ exc = NoExc)
    /\ (\E h \in Slots : hpc[h] # "done") =>
          (\E h \in Slots : hpc[h] \notin {"done", "wait"})

C20_Witness ==
    \E h, k \in Slots :
        /\ hpc[h] = "wait"
        /\ hpc[k] = "fold"
        /\ active = {attrPath[k]}
        /\ NewAttrs(attrPath[k], response[k]) = {}

====
